---- MODULE Spec2Model ----
(***************************************************************************)
(* The todo list of src/app: the client component TodoApp (the optimistic  *)
(* list and its gesture handlers), the server actions of actions.ts and    *)
(* the "todos" table they read and write.                                  *)
(*                                                                         *)
(* A client tick is one run of JavaScript to completion: one or more       *)
(* handlers run against the list the last render gave them, then the       *)
(* microtasks they queued run and React renders the state they set         *)
(* (EndTick).  The server actions are asynchronous: every await of a       *)
(* store request is a step of its own, and the steps of the calls in       *)
(* flight interleave freely.  Server steps are taken between ticks: a      *)
(* handler reads nothing of the server and a server step nothing of the    *)
(* client, so this loses no reachable state.                               *)
(***************************************************************************)
EXTENDS Integers, Sequences, FiniteSets, TLC

\* ------------------------------------------------------------------ bounds
MaxIntents == 2     \* handlers and direct calls of a behaviour
MaxGestures == 1    \* touch gestures of a behaviour of GestureSpec
MaxTouches == 2     \* touch gestures of a behaviour of TouchSpec
MaxGetSupabase == 3 \* calls of getSupabase of a behaviour of SupabaseSpec

\* ------------------------------------------------------------- identifiers
\* An identifier is kept as what the two format tests of the code read of
\* it: its shape (8-4-4-4-12 hexadecimal, "temp-" followed by digits), the
\* version and variant nibbles of the hexadecimal shape, and the rest.
Uuid(k) == [fmt |-> "uuid", ver |-> 4, var |-> 8, n |-> k]
TempId(now) == [fmt |-> "temp", ver |-> 0, var |-> 0, n |-> now]
NoId == [fmt |-> "none", ver |-> 0, var |-> 0, n |-> 0]

\* actions.ts:48, the regular expression of reorderTodos
IsUuid(id) ==
    /\ id.fmt = "uuid"
    /\ id.ver \in 1..5
    /\ id.var \in {8, 9, 10, 11}

\* TodoApp.tsx:247 and :319, id.startsWith('temp-')
StartsWithTemp(id) == id.fmt = "temp"

\* ------------------------------------------------------------------- texts
\* A text is a sequence of characters; " " is the white space trim() strips.
RECURSIVE TrimStart(_)
TrimStart(s) ==
    IF s # <<>> /\ Head(s) = " " THEN TrimStart(Tail(s)) ELSE s

RECURSIVE TrimEnd(_)
TrimEnd(s) ==
    IF s # <<>> /\ s[Len(s)] = " " THEN TrimEnd(SubSeq(s, 1, Len(s) - 1)) ELSE s

Trim(s) == TrimEnd(TrimStart(s))

\* what the form is submitted with
TextInputs == {<<" ">>, <<" ", "a", " ">>}

\* ------------------------------------------------------------------- todos
Todo(id, text, completed, position) ==
    [id |-> id, text |-> text, completed |-> completed, position |-> position]

\* what splice() leaves in the array when it removed nothing
Undefined == Todo(NoId, <<>>, FALSE, 0)

Min(S) == CHOOSE x \in S : \A y \in S : x <= y

Ids(s) == [i \in 1..Len(s) |-> s[i].id]

Range(s) == {s[i] : i \in 1..Len(s)}

\* findIndex: the 0-based index of the first todo of s with this id, or -1
FindIndex(s, id) ==
    IF \E i \in 1..Len(s) : s[i].id = id
    THEN Min({i \in 1..Len(s) : s[i].id = id}) - 1
    ELSE -1

\* Array.prototype.splice: where a start index lands in an array of length n
SpliceStart(start, n) ==
    IF start < 0 THEN (IF n + start < 0 THEN 0 ELSE n + start)
    ELSE IF start > n THEN n ELSE start

\* s.splice(start, 1): the array that is left
SpliceOut(s, start) ==
    LET k == SpliceStart(start, Len(s))
    IN  IF k < Len(s) THEN SubSeq(s, 1, k) \o SubSeq(s, k + 2, Len(s)) ELSE s

\* const [moved] = s.splice(start, 1)
SpliceMoved(s, start) ==
    LET k == SpliceStart(start, Len(s))
    IN  IF k < Len(s) THEN s[k + 1] ELSE Undefined

\* s.splice(start, 0, x)
SpliceIn(s, start, x) ==
    LET k == SpliceStart(start, Len(s))
    IN  SubSeq(s, 1, k) \o <<x>> \o SubSeq(s, k + 1, Len(s))

\* the array after "const [moved] = a.splice(from, 1); a.splice(to, 0, moved)"
MoveItem(s, from, to) ==
    SpliceIn(SpliceOut(s, from), to, SpliceMoved(s, from))

\* ------------------------------------------------------------------- store
\* select ... order by position asc: rows of equal position come in any order
RECURSIVE Ordered(_)
Ordered(rows) ==
    IF rows = {} THEN {<<>>}
    ELSE LET m == Min({r.position : r \in rows})
         IN  UNION {{<<r>> \o t : t \in Ordered(rows \ {r})} :
                    r \in {x \in rows : x.position = m}}

\* the tables the behaviours start from: rows the program can have left
InitialStores ==
    { {},
      { Todo(Uuid(1), <<"x">>, FALSE, 5), Todo(Uuid(2), <<"y">>, TRUE, 10) } }

VARIABLES
    todos,            \* the rows of the table "todos"
    uuidSeq,          \* how many identifiers crypto.randomUUID has issued
    calls,            \* the server action calls, in the order they were made
    posBy,            \* history: the call that last wrote each row's position
    optimisticTodos,  \* the list of the last render, which the handlers read
    nextTodos,        \* the list setOptimisticTodos was last given
    inTick,           \* handlers have run and the tick has not ended
    microtasks,       \* queueMicrotask: the callbacks waiting for the tick's end
    touchStartRef,    \* touchStartRef.current
    elShift,          \* the translateY that updateTodoPositions left on elements
    clock,            \* the last reading of Date.now()
    revalidated,      \* revalidatePath("/") was called and the page not yet re-read
    session,          \* "ok", or "crashed" once a render has thrown
    intents,          \* handlers and direct calls so far
    gesture,          \* history: the touch gesture in progress or last ended
    lastTick,         \* history: the reorders of the tick in progress or last ended
    cached,           \* supabaseClient.ts: the module's variable cached
    env,              \* process.env: the variables that are defined
    created,          \* history: how many clients createClient has constructed
    results           \* history: how each call of getSupabase ended

vars == <<todos, uuidSeq, calls, posBy, optimisticTodos, nextTodos, inTick,
          microtasks, touchStartRef, elShift, clock, revalidated, session,
          intents, gesture, lastTick, cached, env, created, results>>

supabaseVars == <<cached, env, created, results>>

serverVars == <<todos, uuidSeq, calls, posBy, revalidated>>

clientVars == <<optimisticTodos, nextTodos, inTick, microtasks, touchStartRef,
                elShift, clock, session, intents, gesture, lastTick>>

touchVars == <<touchStartRef, elShift, gesture>>

NoTouch == [active |-> FALSE, id |-> NoId, initialIndex |-> 0, currentIndex |-> 0]

NoShift == [up |-> {}, down |-> {}]

NoGesture ==
    [g |-> 0, changed |-> FALSE, released |-> FALSE, moved |-> FALSE,
     stable |-> FALSE, threw |-> FALSE]

NoTick == [updates |-> 0, calls |-> 0, final |-> <<>>]

\* ---------------------------------------------------------- server actions
\* A call of a server action: its arguments, where it stands (pc), what it
\* has read and what it has asked of the store so far, and how it ended.
NewCall(op, src) ==
    [op |-> op, pc |-> "done", src |-> src, g |-> 0, caught |-> FALSE,
     text |-> <<>>, id |-> NoId, ids |-> <<>>, uuidIds |-> <<>>,
     newPos |-> 0, newId |-> NoId, seen |-> FALSE,
     rpc |-> "none", writes |-> <<>>, result |-> "pending",
     error |-> "none", doneAt |-> 0,
     reqs |-> <<>>, shown |-> Undefined, removed |-> <<>>]

\* a request made of the store, and the ids it carries
Req(kind, ids) == [kind |-> kind, ids |-> ids]

IsWrite(req) == req.kind \in {"insert", "update", "delete", "rpc"}

\* addTodo up to its first await (actions.ts:26-30)
addTodoCall(formText, src, caught) ==
    LET text == Trim(formText)
        c == [NewCall("addTodo", src) EXCEPT !.caught = caught, !.text = text]
    IN  IF text = <<>>
        THEN [c EXCEPT !.result = "empty"]
        ELSE [c EXCEPT !.pc = "fetch", !.reqs = <<Req("select", <<>>)>>]

\* reorderTodos without the filter of actions.ts:48
reorderTodosUnfiltered(newOrderIds, src, g) ==
    LET c == [NewCall("reorderTodos", src) EXCEPT
                 !.g = g, !.ids = newOrderIds, !.uuidIds = newOrderIds]
    IN  IF Len(newOrderIds) = 0
        THEN [c EXCEPT !.result = "ok"]
        ELSE [c EXCEPT !.pc = "rpc", !.reqs = <<Req("rpc", newOrderIds)>>]

\* reorderTodos up to its first await (actions.ts:45-55)
reorderTodosCall(newOrderIds, src, g) ==
    LET uuidIds == SelectSeq(newOrderIds, IsUuid)
        c == [NewCall("reorderTodos", src) EXCEPT
                 !.g = g, !.ids = newOrderIds, !.uuidIds = uuidIds]
    IN  IF Len(uuidIds) = 0
        THEN [c EXCEPT !.result = "ok"]
        ELSE [c EXCEPT !.pc = "rpc", !.reqs = <<Req("rpc", uuidIds)>>]

\* toggleTodo up to its first await (actions.ts:77-82)
toggleTodoCall(id, src) ==
    [NewCall("toggleTodo", src) EXCEPT
        !.id = id, !.pc = "select", !.reqs = <<Req("select", <<id>>)>>]

\* deleteTodo up to its await (actions.ts:93-94)
deleteTodoCall(id, src) ==
    [NewCall("deleteTodo", src) EXCEPT
        !.id = id, !.pc = "delete", !.reqs = <<Req("delete", <<id>>)>>]

\* clearCompleted up to its await (actions.ts:100-101)
clearCompletedCall(src) ==
    [NewCall("clearCompleted", src) EXCEPT
        !.pc = "delete", !.reqs = <<Req("delete", <<>>)>>]

\* the action throws the error of the store; doneAt (history) is the number
\* of calls that had been made when this one ended
ThrewError(c, error) ==
    [c EXCEPT !.pc = "done", !.result = "threw", !.error = error,
              !.doneAt = Len(calls)]

Threw(c) == ThrewError(c, "unavailable")

Returned(c) == [c EXCEPT !.pc = "done", !.result = "ok", !.doneAt = Len(calls)]

\* a store request can fail whenever it is made: the store is unreachable
Fault == TRUE

\* addTodo without the decrement of actions.ts:32
NewPosNoDecrement(rows) ==
    IF rows # {} THEN Min({t.position : t \in rows}) ELSE 0

\* addTodo giving 0 to the first item of a list
NewPosZeroWhenEmpty(rows) ==
    IF rows # {} THEN Min({t.position : t \in rows}) - 1 ELSE 0

\* actions.ts:31-32, the position addTodo gives the new row
NewPos(rows) ==
    LET minPos == IF rows # {} THEN Min({t.position : t \in rows}) ELSE 0
    IN  minPos - 1

\* addTodo: fetchTodos answers; the insert is sent (actions.ts:30-39)
AddFetch(i) ==
    /\ calls[i].op = "addTodo" /\ calls[i].pc = "fetch"
    /\ \/ /\ calls' = [calls EXCEPT ![i] =
                 [@ EXCEPT !.pc = "insert", !.newPos = NewPos(todos),
                           !.newId = Uuid(uuidSeq + 1),
                           !.reqs = Append(@, Req("insert", <<Uuid(uuidSeq + 1)>>))]]
          /\ uuidSeq' = uuidSeq + 1
       \/ /\ Fault
          /\ calls' = [calls EXCEPT ![i] = Threw(@)]
          /\ UNCHANGED uuidSeq
    /\ UNCHANGED <<todos, posBy, revalidated>>

\* the row addTodo inserts (actions.ts:34-39)
NewRow(c) == Todo(c.newId, c.text, FALSE, c.newPos)

\* addTodo: the insert answers (actions.ts:34-42)
AddInsert(i) ==
    /\ calls[i].op = "addTodo" /\ calls[i].pc = "insert"
    /\ \/ /\ todos' = todos \cup {NewRow(calls[i])}
          /\ calls' = [calls EXCEPT ![i] = Returned(@)]
          /\ revalidated' = TRUE
       \/ /\ Fault
          /\ calls' = [calls EXCEPT ![i] = Threw(@)]
          /\ UNCHANGED <<todos, revalidated>>
    /\ UNCHANGED <<uuidSeq, posBy>>

\* the rows of these ids, now last written by call i
WrittenBy(ids, i) ==
    {e \in posBy : e[1] \notin ids} \cup
    {<<r.id, i>> : r \in {x \in todos : x.id \in ids}}

\* update todos set position = p where id = id
SetPosition(rows, id, p) ==
    {IF r.id = id THEN [r EXCEPT !.position = p] ELSE r : r \in rows}

\* reorder_todos giving every id the same position
ApplyOrderSame(rows, ids, i) ==
    {IF r.id \in Range(ids) THEN [r EXCEPT !.position = i] ELSE r : r \in rows}

\* the function reorder_todos(ids) of the schema: position i to the i-th id
RECURSIVE ApplyOrder(_, _, _)
ApplyOrder(rows, ids, i) ==
    IF ids = <<>> THEN rows
    ELSE ApplyOrder(SetPosition(rows, Head(ids), i), Tail(ids), i + 1)

\* the manual path numbering from 1
FallbackWritesOneBased(uuidIds) ==
    [k \in 1..Len(uuidIds) |->
        [id |-> uuidIds[k], position |-> k, state |-> "pending"]]

\* actions.ts:66-70, the updates of the manual path: index k to the k-th id
FallbackWrites(uuidIds) ==
    [k \in 1..Len(uuidIds) |->
        [id |-> uuidIds[k], position |-> k - 1, state |-> "pending"]]

\* reorderTodos without the catch of actions.ts:58: a thrown rpc ends it
FallbackRethrows(c, rpc) ==
    IF rpc = "threw" THEN Threw([c EXCEPT !.rpc = rpc])
    ELSE [c EXCEPT !.rpc = rpc, !.pc = "writes",
                   !.writes = [k \in 1..Len(c.uuidIds) |->
                       [id |-> c.uuidIds[k], position |-> k - 1, state |-> "pending"]],
                   !.reqs = @ \o [k \in 1..Len(c.uuidIds) |->
                                     Req("update", <<c.uuidIds[k]>>)]]

\* the manual path is entered: Promise.all sends every update at once
Fallback(c, rpc) ==
    LET w == FallbackWrites(c.uuidIds)
    IN  [c EXCEPT !.rpc = rpc, !.pc = "writes", !.writes = w,
                  !.reqs = @ \o [k \in 1..Len(w) |-> Req("update", <<w[k].id>>)]]

\* reorderTodos: the rpc answers; on any failure the manual updates are sent
\* (actions.ts:53-72)
ReorderRpc(i) ==
    /\ calls[i].op = "reorderTodos" /\ calls[i].pc = "rpc"
    /\ \/ /\ todos' = ApplyOrder(todos, calls[i].uuidIds, 0)
          /\ posBy' = WrittenBy(Range(calls[i].uuidIds), i)
          /\ calls' = [calls EXCEPT ![i] = Returned([@ EXCEPT !.rpc = "ok"])]
          /\ revalidated' = TRUE
       \/ /\ calls' = [calls EXCEPT ![i] = Fallback(@, "error")]
          /\ UNCHANGED <<todos, posBy, revalidated>>
       \/ /\ Fault
          /\ calls' = [calls EXCEPT ![i] = Fallback(@, "threw")]
          /\ UNCHANGED <<todos, posBy, revalidated>>
    /\ UNCHANGED uuidSeq

\* the manual path sending a failed update again
LandedRetrying(c, k, state) ==
    IF state = "failed"
    THEN [c EXCEPT !.reqs = Append(@, Req("update", <<c.writes[k].id>>))]
    ELSE LET w == [c.writes EXCEPT ![k].state = state]
             d == [c EXCEPT !.writes = w]
         IN  IF \A j \in 1..Len(w) : w[j].state # "pending"
             THEN Returned(d) ELSE d

\* Promise.all has every answer: revalidatePath and return (actions.ts:65-74)
Landed(c, k, state) ==
    LET w == [c.writes EXCEPT ![k].state = state]
        d == [c EXCEPT !.writes = w]
    IN  IF \A j \in 1..Len(w) : w[j].state # "pending" THEN Returned(d) ELSE d

\* reorderTodos: one of the manual updates answers (actions.ts:65-74)
ReorderWrite(i, k) ==
    /\ calls[i].op = "reorderTodos" /\ calls[i].pc = "writes"
    /\ calls[i].writes[k].state = "pending"
    /\ \/ /\ todos' = SetPosition(todos, calls[i].writes[k].id,
                                  calls[i].writes[k].position)
          /\ posBy' = WrittenBy({calls[i].writes[k].id}, i)
          /\ calls' = [calls EXCEPT ![i] = Landed(@, k, "ok")]
       \/ /\ Fault
          /\ calls' = [calls EXCEPT ![i] = Landed(@, k, "failed")]
          /\ UNCHANGED <<todos, posBy>>
    /\ revalidated' = (revalidated \/ calls'[i].pc = "done")
    /\ UNCHANGED uuidSeq

\* the column id is of type uuid: any other text is refused by the store
IsUuidValue(id) == id.fmt = "uuid"

\* toggleTodo: select completed ... single() answers (actions.ts:78-87)
ToggleSelect(i) ==
    /\ calls[i].op = "toggleTodo" /\ calls[i].pc = "select"
    /\ \/ /\ \E r \in todos : r.id = calls[i].id
          /\ calls' = [calls EXCEPT ![i] =
                 [@ EXCEPT !.pc = "update",
                     !.seen = (CHOOSE r \in todos : r.id = calls[i].id).completed,
                     !.reqs = Append(@, Req("update", <<calls[i].id>>))]]
       \/ /\ ~ \E r \in todos : r.id = calls[i].id
          /\ calls' = [calls EXCEPT ![i] = ThrewError(@, "not_found")]
       \/ /\ Fault
          /\ calls' = [calls EXCEPT ![i] = Threw(@)]
    /\ UNCHANGED <<todos, uuidSeq, posBy, revalidated>>

\* update todos set completed = v where id = id
SetCompleted(rows, id, v) ==
    {IF r.id = id THEN [r EXCEPT !.completed = v] ELSE r : r \in rows}

\* toggleTodo: the update answers (actions.ts:84-90)
ToggleUpdate(i) ==
    /\ calls[i].op = "toggleTodo" /\ calls[i].pc = "update"
    /\ \/ /\ todos' = SetCompleted(todos, calls[i].id, ~ calls[i].seen)
          /\ calls' = [calls EXCEPT ![i] = Returned(@)]
          /\ revalidated' = TRUE
       \/ /\ Fault
          /\ calls' = [calls EXCEPT ![i] = Threw(@)]
          /\ UNCHANGED <<todos, revalidated>>
    /\ UNCHANGED <<uuidSeq, posBy>>

\* deleteTodo: the delete answers (actions.ts:93-97)
DeleteAnswer(i) ==
    /\ calls[i].op = "deleteTodo" /\ calls[i].pc = "delete"
    /\ \/ /\ IsUuidValue(calls[i].id)
          /\ todos' = {r \in todos : r.id # calls[i].id}
          /\ calls' = [calls EXCEPT ![i] = Returned(@)]
          /\ revalidated' = TRUE
       \/ /\ ~ IsUuidValue(calls[i].id)
          /\ calls' = [calls EXCEPT ![i] = ThrewError(@, "refused")]
          /\ UNCHANGED <<todos, revalidated>>
       \/ /\ Fault
          /\ calls' = [calls EXCEPT ![i] = Threw(@)]
          /\ UNCHANGED <<todos, revalidated>>
    /\ UNCHANGED <<uuidSeq, posBy>>

\* clearCompleted: the delete answers (actions.ts:100-104)
ClearAnswer(i) ==
    /\ calls[i].op = "clearCompleted" /\ calls[i].pc = "delete"
    /\ \/ /\ todos' = {r \in todos : ~ r.completed}
          /\ calls' = [calls EXCEPT ![i] = Returned(@)]
          /\ revalidated' = TRUE
       \/ /\ Fault
          /\ calls' = [calls EXCEPT ![i] = Threw(@)]
          /\ UNCHANGED <<todos, revalidated>>
    /\ UNCHANGED <<uuidSeq, posBy>>

\* ------------------------------------------------------------------ client
\* The handlers read optimisticTodos, the list of the render they were made
\* by, and hand setOptimisticTodos the next list, whose reducer keeps it as
\* it is (TodoApp.tsx:18-21).
Handler ==
    /\ session = "ok"
    /\ intents < MaxIntents
    /\ intents' = intents + 1

\* TodoApp.tsx:40-43, the placeholder of onAdd
Placeholder(list, text, now) ==
    LET minPos == IF Len(list) # 0
                  THEN Min({list[i].position : i \in 1..Len(list)})
                  ELSE 0
    IN  Todo(TempId(now), text, FALSE, minPos - 1)

\* onAdd without the test of TodoApp.tsx:37
onAddUnchecked(formText) ==
    /\ Handler
    /\ \E now \in {clock, clock + 1} :
          /\ clock' = now
          /\ nextTodos' = <<Placeholder(optimisticTodos, Trim(formText), now)>>
                             \o optimisticTodos
          /\ inTick' = TRUE
          /\ calls' = Append(calls,
                [addTodoCall(formText, "client", TRUE) EXCEPT !.shown =
                    Placeholder(optimisticTodos, Trim(formText), now)])
    /\ UNCHANGED <<todos, uuidSeq, posBy, revalidated, optimisticTodos,
                   microtasks, session, lastTick>>
    /\ UNCHANGED touchVars
    /\ UNCHANGED supabaseVars

\* onAdd (TodoApp.tsx:35-52); Date.now() reads the clock, which may have
\* advanced since it was last read
onAdd(formText) ==
    /\ Handler
    /\ IF Trim(formText) = <<>>
       THEN UNCHANGED <<nextTodos, inTick, clock, calls>>
       ELSE \E now \in {clock, clock + 1} :
               /\ clock' = now
               /\ nextTodos' = <<Placeholder(optimisticTodos, Trim(formText), now)>>
                                  \o optimisticTodos
               /\ inTick' = TRUE
               /\ calls' = Append(calls,
                     [addTodoCall(formText, "client", TRUE) EXCEPT !.shown =
                         Placeholder(optimisticTodos, Trim(formText), now)])
    /\ UNCHANGED <<todos, uuidSeq, posBy, revalidated, optimisticTodos,
                   microtasks, session, lastTick>>
    /\ UNCHANGED touchVars
    /\ UNCHANGED supabaseVars

\* TodoApp.tsx:247 and :319, the ids the client sends
StableIds(list) == SelectSeq(Ids(list), LAMBDA id : ~ StartsWithTemp(id))

Reordered(t, final) ==
    IF inTick THEN [t EXCEPT !.updates = @ + 1, !.final = final]
    ELSE [updates |-> 1, calls |-> 0, final |-> final]

\* reorderTodosById (TodoApp.tsx:310-324)
reorderTodosById(draggedId, targetId) ==
    LET fromIdx == FindIndex(optimisticTodos, draggedId)
        toIdx == FindIndex(optimisticTodos, targetId)
        current == MoveItem(optimisticTodos, fromIdx, toIdx)
    IN  IF fromIdx = -1 \/ toIdx = -1
        THEN UNCHANGED <<nextTodos, inTick, microtasks, lastTick>>
        ELSE /\ nextTodos' = current
             /\ inTick' = TRUE
             /\ microtasks' = Append(microtasks,
                    [stableIds |-> StableIds(current), src |-> "drop", g |-> 0])
             /\ lastTick' = Reordered(lastTick, StableIds(current))

\* what a drop can carry as text/plain: the id of a rendered item, nothing,
\* or the text of a drag that started elsewhere
ForeignText == [fmt |-> "other", ver |-> 0, var |-> 0, n |-> 0]

DropData == Range(Ids(optimisticTodos)) \cup {NoId, ForeignText}

\* handleDrop (TodoApp.tsx:63-71)
handleDrop(draggedId, targetId) ==
    /\ Handler
    /\ IF draggedId = NoId \/ draggedId = targetId
       THEN UNCHANGED <<nextTodos, inTick, microtasks, lastTick>>
       ELSE reorderTodosById(draggedId, targetId)
    /\ UNCHANGED <<optimisticTodos, clock, session>>
    /\ UNCHANGED serverVars
    /\ UNCHANGED touchVars
    /\ UNCHANGED supabaseVars

\* onToggle (TodoApp.tsx:326-336)
onToggle(id) ==
    /\ Handler
    /\ nextTodos' = [i \in 1..Len(optimisticTodos) |->
          IF optimisticTodos[i].id = id
          THEN [optimisticTodos[i] EXCEPT !.completed = ~ @]
          ELSE optimisticTodos[i]]
    /\ inTick' = TRUE
    /\ calls' = Append(calls, toggleTodoCall(id, "client"))
    /\ UNCHANGED <<todos, uuidSeq, posBy, revalidated, optimisticTodos,
                   microtasks, clock, session, lastTick>>
    /\ UNCHANGED touchVars
    /\ UNCHANGED supabaseVars

\* onDelete, which ends with exitDeleteMode (TodoApp.tsx:338-346, 297-300)
onDelete(id) ==
    /\ Handler
    /\ nextTodos' = SelectSeq(optimisticTodos, LAMBDA t : t.id # id)
    /\ inTick' = TRUE
    /\ calls' = Append(calls, deleteTodoCall(id, "client"))
    /\ touchStartRef' = NoTouch
    /\ UNCHANGED <<todos, uuidSeq, posBy, revalidated, optimisticTodos,
                   microtasks, clock, session, lastTick, elShift, gesture>>
    /\ UNCHANGED supabaseVars

\* onClearCompleted (TodoApp.tsx:348-353); its button is rendered while an
\* item is completed (TodoApp.tsx:485)
onClearCompleted ==
    /\ Handler
    /\ \E i \in 1..Len(optimisticTodos) : optimisticTodos[i].completed
    /\ nextTodos' = SelectSeq(optimisticTodos, LAMBDA t : ~ t.completed)
    /\ inTick' = TRUE
    /\ calls' = Append(calls,
          [clearCompletedCall("client") EXCEPT !.removed =
              Ids(SelectSeq(optimisticTodos, LAMBDA t : t.completed))])
    /\ UNCHANGED <<todos, uuidSeq, posBy, revalidated, optimisticTodos,
                   microtasks, clock, session, lastTick>>
    /\ UNCHANGED touchVars
    /\ UNCHANGED supabaseVars

\* ------------------------------------------------------- the store client
\* the variables of the environment that the module reads (supabaseClient.ts
\* :7-8) and the one its message and the README name (:10, :41)
URL == "NEXT_PUBLIC_SUPABASE_URL"
PUBLIC_ANON_KEY == "NEXT_PUBLIC_SUPABASE_ANON_KEY"
ANON_KEY == "SUPABASE_ANON_KEY"

EnvNames == {URL, PUBLIC_ANON_KEY, ANON_KEY}

\* what a variable can be set to: the empty string, or a usable value
EnvValues == {"", "a", "b"}

\* no variable is defined; env holds a pair <<name, value>> for each
\* variable that is
NoEnv == {}

\* process.env[name], of a variable that is defined
Getenv(name) == CHOOSE value \in EnvValues : <<name, value>> \in env

\* cached = null (supabaseClient.ts:3)
Null == [url |-> "", key |-> "", persistSession |-> FALSE, n |-> 0]

\* !process.env[name]: the variable is undefined or empty
Missing(name) == \A e \in env : e[1] = name => e[2] = ""

\* createClient(url, key, { auth: { persistSession: false } }): the n-th
\* client object constructed
createClient(url, key, n) ==
    [url |-> url, key |-> key, persistSession |-> FALSE, n |-> n]

\* the message of the Error of supabaseClient.ts:10
EnvVarsMissing ==
    "Supabase env vars missing. Set NEXT_PUBLIC_SUPABASE_URL and SUPABASE_ANON_KEY (or SUPABASE_SERVICE_ROLE_KEY)."

ReturnedClient(client) == [outcome |-> "returned", client |-> client, error |-> ""]

ThrewMissing == [outcome |-> "threw", client |-> Null, error |-> EnvVarsMissing]

\* getSupabase without the test of supabaseClient.ts:6
getSupabaseUncached ==
    /\ Len(results) < MaxGetSupabase
    /\ IF Missing(URL) \/ Missing(PUBLIC_ANON_KEY)
       THEN /\ results' = Append(results, ThrewMissing)
            /\ UNCHANGED <<cached, created>>
       ELSE /\ cached' = createClient(Getenv(URL), Getenv(PUBLIC_ANON_KEY), created + 1)
            /\ created' = created + 1
            /\ results' = Append(results, ReturnedClient(cached'))
    /\ UNCHANGED env
    /\ UNCHANGED <<clientVars, serverVars>>

\* getSupabase (supabaseClient.ts:5-14)
getSupabase ==
    /\ Len(results) < MaxGetSupabase
    /\ IF cached # Null
       THEN /\ results' = Append(results, ReturnedClient(cached))
            /\ UNCHANGED <<cached, created>>
       ELSE IF Missing(URL) \/ Missing(PUBLIC_ANON_KEY)
       THEN /\ results' = Append(results, ThrewMissing)
            /\ UNCHANGED <<cached, created>>
       ELSE /\ cached' = createClient(Getenv(URL), Getenv(PUBLIC_ANON_KEY), created + 1)
            /\ created' = created + 1
            /\ results' = Append(results, ReturnedClient(cached'))
    /\ UNCHANGED env
    /\ UNCHANGED <<clientVars, serverVars>>

\* The environment is loaded: a variable that was undefined or empty is
\* given a value (supabaseClient.ts:16, "env not yet loaded"); nothing in
\* the program removes or changes a variable.
LoadEnv(name, value) ==
    /\ Missing(name)
    /\ env' = {e \in env : e[1] # name} \cup {<<name, value>>}
    /\ env' # env
    /\ UNCHANGED <<cached, created, results>>
    /\ UNCHANGED <<clientVars, serverVars>>

Init ==
    /\ todos \in InitialStores
    /\ uuidSeq = 2
    /\ calls = <<>>
    /\ posBy = {}
    /\ optimisticTodos \in Ordered(todos)
    /\ nextTodos = optimisticTodos
    /\ inTick = FALSE
    /\ microtasks = <<>>
    /\ touchStartRef = NoTouch
    /\ elShift = NoShift
    /\ clock = 1
    /\ revalidated = FALSE
    /\ session = "ok"
    /\ intents = 0
    /\ gesture = NoGesture
    /\ lastTick = NoTick
    /\ cached = Null
    /\ env = NoEnv
    /\ created = 0
    /\ results = <<>>

\* ------------------------------------------------------------------ touch
\* The items are laid out one under the other, each RowHeight high and Gap
\* apart; the element of an item keeps the inline transform it was given.
RowHeight == 40
Gap == 8
Pitch == RowHeight + Gap

\* pointer displacements of a touch move, beyond the 10 pixels of
\* TodoApp.tsx:148
Deltas == {-30, 30, 50}

\* handleTouchStart (TodoApp.tsx:74-85)
handleTouchStart(id) ==
    /\ session = "ok"
    /\ touchStartRef' =
          [active |-> TRUE, id |-> id,
           initialIndex |-> FindIndex(optimisticTodos, id),
           currentIndex |-> FindIndex(optimisticTodos, id)]
    /\ gesture' = [NoGesture EXCEPT !.g = gesture.g + 1]
    /\ UNCHANGED <<optimisticTodos, nextTodos, inTick, microtasks, elShift,
                   clock, session, lastTick>>
    /\ UNCHANGED serverVars
    /\ UNCHANGED supabaseVars

\* a touch that is counted among the handlers of the behaviour
CountedTouchStart(id) ==
    /\ intents < MaxIntents
    /\ intents' = intents + 1
    /\ handleTouchStart(id)

\* a touch that is counted among the gestures of the behaviour
GestureTouchStart(id) ==
    /\ gesture.g < MaxGestures
    /\ UNCHANGED intents
    /\ handleTouchStart(id)

\* a touch that is counted among the gestures of a behaviour of TouchSpec
RepeatedTouchStart(id) ==
    /\ gesture.g < MaxTouches
    /\ UNCHANGED intents
    /\ handleTouchStart(id)

\* getBoundingClientRect of the i-th rendered element (0-based): the middle
\* of its box, moved by the transform updateTodoPositions left on it
CenterY(i) ==
    LET offset == IF i \in elShift.up THEN -1
                  ELSE IF i \in elShift.down THEN 1 ELSE 0
    IN  i * Pitch + RowHeight \div 2 + offset * Pitch

\* TodoApp.tsx:160-167: the dragged element is given translateY(deltaY) and
\* then measured, so its box has already moved by deltaY when deltaY is
\* added to its middle; an element no longer in the document measures 0
DraggedCenterY(deltaY) ==
    LET d == FindIndex(optimisticTodos, touchStartRef.id)
    IN  IF d = -1 THEN deltaY
        ELSE (d * Pitch + deltaY) + RowHeight \div 2 + deltaY

\* TodoApp.tsx:169-185, the scan from element i on
RECURSIVE Scan(_, _, _)
Scan(i, newIndex, deltaY) ==
    IF i >= Len(optimisticTodos) THEN newIndex
    ELSE IF i = FindIndex(optimisticTodos, touchStartRef.id)
         THEN Scan(i + 1, newIndex, deltaY)
    ELSE IF DraggedCenterY(deltaY) < CenterY(i)
         THEN (IF i < touchStartRef.initialIndex
               THEN i ELSE touchStartRef.initialIndex)
    ELSE Scan(i + 1,
              IF i > touchStartRef.initialIndex
              THEN i ELSE touchStartRef.initialIndex,
              deltaY)

NewIndex(deltaY) == Scan(0, touchStartRef.initialIndex, deltaY)

\* updateTodoPositions (TodoApp.tsx:194-225): the elements, by their index
\* in the document, that are left shifted one row up and one row down; the
\* dragged element is the first one carrying the dragged id
updateTodoPositions(fromIndex, toIndex) ==
    LET others == (0..(Len(optimisticTodos) - 1))
                      \ {FindIndex(optimisticTodos, touchStartRef.id)}
    IN  [up |-> {j \in others :
                      fromIndex < toIndex /\ j > fromIndex /\ j <= toIndex},
         down |-> {j \in others :
                      ~ (fromIndex < toIndex) /\ j >= toIndex /\ j < fromIndex}]

\* handleTouchMove persisting every index change
handleTouchMovePersisting(deltaY) ==
    /\ session = "ok"
    /\ touchStartRef.active
    /\ NewIndex(deltaY) # touchStartRef.currentIndex
    /\ touchStartRef' = [touchStartRef EXCEPT !.currentIndex = NewIndex(deltaY)]
    /\ elShift' = updateTodoPositions(touchStartRef.initialIndex, NewIndex(deltaY))
    /\ gesture' = [gesture EXCEPT !.changed = TRUE]
    /\ microtasks' = Append(microtasks,
          [stableIds |-> StableIds(optimisticTodos), src |-> "touch",
           g |-> gesture.g])
    /\ inTick' = TRUE
    /\ UNCHANGED <<optimisticTodos, nextTodos, clock, session, intents, lastTick>>
    /\ UNCHANGED serverVars
    /\ UNCHANGED supabaseVars

\* handleTouchMove, when the index changes (TodoApp.tsx:128-192)
handleTouchMove(deltaY) ==
    /\ session = "ok"
    /\ touchStartRef.active
    /\ NewIndex(deltaY) # touchStartRef.currentIndex
    /\ touchStartRef' = [touchStartRef EXCEPT !.currentIndex = NewIndex(deltaY)]
    /\ elShift' = updateTodoPositions(touchStartRef.initialIndex, NewIndex(deltaY))
    /\ gesture' = [gesture EXCEPT !.changed = TRUE]
    /\ UNCHANGED <<optimisticTodos, nextTodos, inTick, microtasks, clock,
                   session, intents, lastTick>>
    /\ UNCHANGED serverVars
    /\ UNCHANGED supabaseVars

\* handleTouchEnd (TodoApp.tsx:227-279).  When splice found nothing at
\* initialIndex, current holds undefined: current.map(t => t.id) throws
\* after setOptimisticTodos was called and nothing after it is run.
handleTouchEnd ==
    LET initialIndex == touchStartRef.initialIndex
        currentIndex == touchStartRef.currentIndex
        current == MoveItem(optimisticTodos, initialIndex, currentIndex)
    IN  /\ session = "ok"
        /\ touchStartRef.active
        /\ gesture' = [gesture EXCEPT !.released = TRUE,
                                   !.moved = (initialIndex # currentIndex),
                                   !.stable = (Len(StableIds(current)) # 0),
                                   !.threw = (Undefined \in Range(current))]
        /\ IF initialIndex = currentIndex
           THEN /\ touchStartRef' = NoTouch
                /\ elShift' = NoShift
                /\ UNCHANGED <<nextTodos, inTick, microtasks, lastTick>>
           ELSE /\ nextTodos' = current
                /\ inTick' = TRUE
                /\ IF Undefined \in Range(current)
                   THEN UNCHANGED <<touchStartRef, elShift, microtasks, lastTick>>
                   ELSE /\ microtasks' = Append(microtasks,
                              [stableIds |-> StableIds(current), src |-> "touch",
                               g |-> gesture.g])
                        /\ lastTick' = Reordered(lastTick, StableIds(current))
                        /\ touchStartRef' = NoTouch
                        /\ elShift' = NoShift
        /\ UNCHANGED <<optimisticTodos, clock, session, intents>>
        /\ UNCHANGED serverVars
        /\ UNCHANGED supabaseVars

\* ---------------------------------------------------------- end of a tick
\* queueMicrotask(() => { if (stableIds.length) reorderTodos(stableIds) })
\* (TodoApp.tsx:248-250, 321-323): the calls the queued callbacks make
RECURSIVE RunMicrotasks(_)
RunMicrotasks(q) ==
    IF q = <<>> THEN <<>>
    ELSE (IF Len(Head(q).stableIds) # 0
          THEN <<reorderTodosCall(Head(q).stableIds, "client", Head(q).g)>>
          ELSE <<>>) \o RunMicrotasks(Tail(q))

\* React keeps the element of a key from one render to the next, and with
\* it the inline transform: the k-th element of a key in the old list is the
\* k-th element of that key in the new one (TodoApp.tsx:411-415, key={t.id})
Occurrence(list, i) ==
    Cardinality({j \in 0..i : list[j + 1].id = list[i + 1].id})

SameElement(old, j, new, k) ==
    /\ old[j + 1].id = new[k + 1].id
    /\ Occurrence(old, j) = Occurrence(new, k)

Prune(shift, old, new) ==
    LET kept(set) == {k \in 0..(Len(new) - 1) :
                         \E j \in set : /\ j < Len(old)
                                         /\ SameElement(old, j, new, k)}
    IN  [up |-> kept(shift.up), down |-> kept(shift.down)]

\* The tick ends: the microtasks run, then React renders the list it was
\* given; rendering undefined throws (TodoApp.tsx:411-415).
EndTick ==
    /\ inTick
    /\ inTick' = FALSE
    /\ calls' = calls \o RunMicrotasks(microtasks)
    /\ microtasks' = <<>>
    /\ lastTick' = [lastTick EXCEPT !.calls = Len(RunMicrotasks(microtasks))]
    /\ IF Undefined \in Range(nextTodos)
       THEN /\ session' = "crashed"
            /\ UNCHANGED <<optimisticTodos, elShift>>
       ELSE /\ optimisticTodos' = nextTodos
            /\ elShift' = Prune(elShift, optimisticTodos, nextTodos)
            /\ UNCHANGED session
    /\ UNCHANGED <<todos, uuidSeq, posBy, revalidated, nextTodos,
                   touchStartRef, clock, intents, gesture>>
    /\ UNCHANGED supabaseVars

\* Home (page.tsx): after revalidatePath the page is read again and TodoApp
\* is given the rows as its initial list
Home ==
    /\ revalidated
    /\ ~ inTick
    /\ session = "ok"
    /\ revalidated' = FALSE
    /\ optimisticTodos' \in Ordered(todos)
    /\ nextTodos' = optimisticTodos'
    /\ elShift' = Prune(elShift, optimisticTodos, optimisticTodos')
    /\ UNCHANGED <<todos, uuidSeq, calls, posBy, inTick, microtasks,
                   touchStartRef, clock, session, intents, gesture, lastTick>>
    /\ UNCHANGED supabaseVars

\* ------------------------------------------------------------ direct calls
\* reorderTodos is an exported server action: any caller may hand it any
\* array of strings
DirectOrders ==
    { <<TempId(1)>>,
      <<Uuid(2), TempId(1), Uuid(1), Uuid(3)>> }

DirectReorder(ids) ==
    /\ ~ inTick
    /\ intents < MaxIntents
    /\ intents' = intents + 1
    /\ calls' = Append(calls, reorderTodosCall(ids, "direct", 0))
    /\ UNCHANGED <<todos, uuidSeq, posBy, revalidated, optimisticTodos,
                   nextTodos, inTick, microtasks, clock, session, lastTick>>
    /\ UNCHANGED touchVars
    /\ UNCHANGED supabaseVars

\* addTodo is an exported server action too: any caller may hand it a form
DirectAdd(formText) ==
    /\ ~ inTick
    /\ intents < MaxIntents
    /\ intents' = intents + 1
    /\ calls' = Append(calls, addTodoCall(formText, "direct", FALSE))
    /\ UNCHANGED <<todos, uuidSeq, posBy, revalidated, optimisticTodos,
                   nextTodos, inTick, microtasks, clock, session, lastTick>>
    /\ UNCHANGED touchVars
    /\ UNCHANGED supabaseVars

\* ------------------------------------------------------------------- steps
ServerStep ==
    /\ ~ inTick
    /\ \E i \in 1..Len(calls) :
          \/ AddFetch(i)
          \/ AddInsert(i)
          \/ ReorderRpc(i)
          \/ \E k \in 1..Len(calls[i].writes) : ReorderWrite(i, k)
          \/ ToggleSelect(i)
          \/ ToggleUpdate(i)
          \/ DeleteAnswer(i)
          \/ ClearAnswer(i)
    /\ UNCHANGED clientVars
    /\ UNCHANGED supabaseVars

Next ==
    \/ \E formText \in TextInputs : onAdd(formText)
    \/ \E id \in Range(Ids(optimisticTodos)) : onToggle(id)
    \/ \E id \in Range(Ids(optimisticTodos)) : onDelete(id)
    \/ onClearCompleted
    \/ \E draggedId \in DropData, targetId \in Range(Ids(optimisticTodos)) :
          handleDrop(draggedId, targetId)
    \/ \E id \in Range(Ids(optimisticTodos)) : CountedTouchStart(id)
    \/ \E deltaY \in Deltas : handleTouchMove(deltaY)
    \/ handleTouchEnd
    \/ EndTick
    \/ Home
    \/ \E ids \in DirectOrders : DirectReorder(ids)
    \/ \E formText \in TextInputs : DirectAdd(formText)
    \/ ServerStep

Spec == Init /\ [][Next]_vars

\* The behaviours of touch gestures: additions, deletions and one gesture
\* begun at any moment, with the server actions they call.
GestureNext ==
    \/ \E formText \in TextInputs : onAdd(formText)
    \/ \E id \in Range(Ids(optimisticTodos)) : onDelete(id)
    \/ onClearCompleted
    \/ \E id \in Range(Ids(optimisticTodos)) : GestureTouchStart(id)
    \/ \E deltaY \in Deltas : handleTouchMove(deltaY)
    \/ handleTouchEnd
    \/ EndTick
    \/ Home
    \/ ServerStep

GestureSpec == Init /\ [][GestureNext]_vars

\* The behaviours of repeated touch gestures while the store has answered
\* none of the calls: additions and gestures that follow one another, with
\* the renders they cause.
TouchNext ==
    \/ \E formText \in TextInputs : onAdd(formText)
    \/ \E id \in Range(Ids(optimisticTodos)) : RepeatedTouchStart(id)
    \/ \E deltaY \in Deltas : handleTouchMove(deltaY)
    \/ handleTouchEnd
    \/ EndTick

TouchSpec == Init /\ [][TouchNext]_vars

\* The behaviours of the store client: the environment being loaded and
\* the calls of getSupabase.
SupabaseNext ==
    \/ \E name \in EnvNames, value \in EnvValues : LoadEnv(name, value)
    \/ getSupabase

SupabaseSpec == Init /\ [][SupabaseNext]_vars

\* ------------------------------------------------------------------ claims
CallIds == 1..Len(calls)

ReorderCalls == {i \in CallIds : calls[i].op = "reorderTodos"}

AddCalls == {i \in CallIds : calls[i].op = "addTodo"}

\* no durable call is in flight, and none is about to be made
NoCallInFlight ==
    /\ ~ inTick
    /\ \A i \in CallIds : calls[i].pc = "done"

\* a reorder that asked something of the store has returned
ReorderCompleted ==
    \E i \in ReorderCalls : calls[i].pc = "done" /\ calls[i].reqs # <<>>

\* every request the store was sent was carried out
NoRequestFailed ==
    \A i \in CallIds :
        /\ calls[i].result # "threw"
        /\ calls[i].rpc # "threw"
        /\ \A k \in 1..Len(calls[i].writes) : calls[i].writes[k].state # "failed"

PositionsUnique ==
    \A r1, r2 \in todos : r1.id # r2.id => r1.position # r2.position

\* C1: once a reorder has completed and no durable call is in flight, no two
\* rows of the store have the same position, whatever the interleaving of
\* the calls was (here: even when the store carried out every request).
C1_PositionsUniqueAtRest ==
    (NoCallInFlight /\ ReorderCompleted /\ NoRequestFailed) => PositionsUnique

Exists(id) == \E r \in todos : r.id = id

Distinct(ids) == \A j, k \in 1..Len(ids) : j # k => ids[j] # ids[k]

\* every request of a call that reached the store was carried out
CarriedOut(c) ==
    /\ c.pc = "done"
    /\ \/ c.rpc = "ok"
       \/ /\ c.writes # <<>>
          /\ \A k \in 1..Len(c.writes) : c.writes[k].state = "ok"

\* no other call has written the position of a row of call i since
NotOverwritten(i) ==
    \A id \in Range(calls[i].uuidIds) : Exists(id) => <<id, i>> \in posBy

\* the ids of these that listItems returns, in the order it returns them
Listed(list, ids) == SelectSeq(Ids(list), LAMBDA id : id \in Range(ids))

\* C2: after reorder(ids), once all of its durable writes have been carried
\* out (by the atomic call or by the fallback) and before another reorder
\* writes those rows again, listItems returns the rows of those ids in the
\* order of the list.
C2_ReorderRoundTrip ==
    \A i \in ReorderCalls :
        (CarriedOut(calls[i]) /\ NotOverwritten(i) /\ Distinct(calls[i].uuidIds))
        => \A list \in Ordered(todos) :
              Listed(list, calls[i].uuidIds) = SelectSeq(calls[i].uuidIds, Exists)

C2_Witness ==
    \E i \in ReorderCalls :
        /\ CarriedOut(calls[i]) /\ NotOverwritten(i)
        /\ calls[i].rpc = "error"
        /\ Len(SelectSeq(calls[i].uuidIds, Exists)) >= 2
        /\ \E r1, r2 \in todos : r1.id = Uuid(2) /\ r2.id = Uuid(1)
                                 /\ r1.position < r2.position

\* C3: every id that a reorder hands the store, in the atomic call or in a
\* per-row position write, has the durable format; a request of placeholder
\* ids only makes no store call at all; the client sends no placeholder id
\* and makes no call when it has nothing else to send.
C3_PlaceholderExclusion ==
    \A i \in ReorderCalls :
        /\ \A k \in 1..Len(calls[i].reqs) :
              \A id \in Range(calls[i].reqs[k].ids) : IsUuid(id)
        /\ \A k \in 1..Len(calls[i].writes) : IsUuid(calls[i].writes[k].id)
        /\ (\A id \in Range(calls[i].ids) : ~ IsUuid(id))
           => (calls[i].reqs = <<>> /\ calls[i].pc = "done" /\ calls[i].result = "ok")
        /\ calls[i].src = "client"
           => /\ calls[i].ids # <<>>
              /\ \A id \in Range(calls[i].ids) : ~ StartsWithTemp(id)

C3_Witness ==
    /\ \E i \in ReorderCalls :
          /\ \E id \in Range(calls[i].ids) : StartsWithTemp(id)
          /\ \E id \in Range(calls[i].ids) : IsUuid(id)
          /\ calls[i].pc = "done" /\ calls[i].writes # <<>>
    /\ \E i \in ReorderCalls :
          /\ calls[i].ids # <<>>
          /\ \A id \in Range(calls[i].ids) : StartsWithTemp(id)
          /\ calls[i].pc = "done"

\* C4: the fallback writes position k to the id at index k of the durable
\* ids (0-based), one write per id: the positions written are 0..N-1 in
\* input order, and a row whose write landed last holds that position.
C4_FallbackRenumbering ==
    \A i \in ReorderCalls :
        calls[i].rpc \in {"error", "threw"} =>
            /\ Len(calls[i].writes) = Len(calls[i].uuidIds)
            /\ \A k \in 1..Len(calls[i].writes) :
                  /\ calls[i].writes[k].id = calls[i].uuidIds[k]
                  /\ calls[i].writes[k].position = k - 1
                  /\ \A r \in todos :
                        ( /\ r.id = calls[i].uuidIds[k]
                          /\ calls[i].writes[k].state = "ok"
                          /\ <<r.id, i>> \in posBy
                          /\ Distinct(calls[i].uuidIds) )
                        => r.position = k - 1

C4_Witness ==
    \E i \in ReorderCalls :
        /\ calls[i].uuidIds = <<Uuid(2), Uuid(1), Uuid(3)>>
        /\ calls[i].pc = "done"
        /\ Len(calls[i].writes) = 3
        /\ \A k \in 1..3 : calls[i].writes[k].state = "ok"
        /\ \E r \in todos : r.id = Uuid(2) /\ r.position = 0
        /\ \E r \in todos : r.id = Uuid(1) /\ r.position = 1

\* C5: a reorder with a durable id makes the atomic call first and once;
\* when it succeeds no per-row write is made; when it returns an error or
\* throws, one per-row write is made for every durable id, in order, and
\* the call still returns ok.
C5_ReorderProtocol ==
    \A i \in ReorderCalls :
        Len(calls[i].uuidIds) # 0 =>
            /\ calls[i].reqs # <<>>
            /\ calls[i].reqs[1] = Req("rpc", calls[i].uuidIds)
            /\ \A k \in 2..Len(calls[i].reqs) : calls[i].reqs[k].kind = "update"
            /\ calls[i].rpc = "none"
               => (calls[i].pc = "rpc" /\ Len(calls[i].reqs) = 1)
            /\ calls[i].rpc = "ok"
               => (calls[i].pc = "done" /\ Len(calls[i].reqs) = 1)
            /\ calls[i].rpc \in {"error", "threw"}
               => /\ Len(calls[i].reqs) = 1 + Len(calls[i].uuidIds)
                  /\ \A k \in 1..Len(calls[i].uuidIds) :
                        calls[i].reqs[k + 1].ids = <<calls[i].uuidIds[k]>>
            /\ calls[i].result # "threw"
            /\ calls[i].pc = "done" => calls[i].result = "ok"

C5_Witness ==
    /\ \E i \in ReorderCalls :
          calls[i].rpc = "threw" /\ calls[i].pc = "done" /\ calls[i].result = "ok"
    /\ \E i \in ReorderCalls : calls[i].rpc = "ok"

\* the step is an accepted onAdd: a client call of addTodo is made
AddStep ==
    /\ Len(calls') = Len(calls) + 1
    /\ calls'[Len(calls')].op = "addTodo"
    /\ calls'[Len(calls')].src = "client"

\* the step is the answer to the fetchTodos of call i of addTodo
FetchStep(i) ==
    calls[i].op = "addTodo" /\ calls[i].pc = "fetch" /\ calls'[i].pc = "insert"

\* the step is the answer to the insert of call i of addTodo, carried out
InsertStep(i) ==
    calls[i].op = "addTodo" /\ calls[i].pc = "insert" /\ calls'[i].result = "ok"

C7_EmptyListGivesZero ==
    [][ /\ (AddStep /\ optimisticTodos = <<>>) =>
              (Len(nextTodos') = 1 /\ nextTodos'[1].position = 0)
        /\ \A i \in CallIds :
              (FetchStep(i) /\ todos = {}) => calls'[i].newPos = 0
      ]_vars

\* C7, amended: the position given to the new item of an empty list is -1:
\* LocalView becomes a single placeholder with completed = false and
\* position -1, addTodo computes -1, and when its insert lands in the empty
\* store listItems returns one row, of position -1.
C7_EmptyListGivesMinusOne ==
    [][ /\ (AddStep /\ optimisticTodos = <<>>) =>
              /\ Len(nextTodos') = 1
              /\ StartsWithTemp(nextTodos'[1].id)
              /\ nextTodos'[1].completed = FALSE
              /\ nextTodos'[1].position = -1
        /\ \A i \in CallIds :
              /\ (FetchStep(i) /\ todos = {}) => calls'[i].newPos = -1
              /\ (InsertStep(i) /\ todos = {} /\ calls[i].newPos = -1) =>
                    \A list \in Ordered(todos') :
                        Len(list) = 1 /\ list[1].position = -1
      ]_vars

C7_Witness ==
    \E i \in AddCalls :
        /\ calls[i].result = "ok"
        /\ calls[i].shown.position = -1
        /\ \E r \in todos : todos = {r} /\ r.id = calls[i].newId /\ r.position = -1

\* C8: the row that an accepted insert creates carries the text of the
\* placeholder that was shown, completed = false, and its position.
C8_InsertPersistsWhatWasShown ==
    \A i \in AddCalls :
        (calls[i].src = "client" /\ calls[i].newId # NoId) =>
            /\ NewRow(calls[i]).text = calls[i].shown.text
            /\ NewRow(calls[i]).completed = FALSE
            /\ NewRow(calls[i]).position = calls[i].shown.position

\* the durable reorder calls that gesture k made
GestureCalls(k) == {i \in ReorderCalls : calls[i].g = k}

\* C9, as claimed: a touch gesture of one or more index changes and a
\* release makes exactly one durable reorder call.
C9_ExactlyOneCallPerGesture ==
    (gesture.released /\ gesture.changed /\ ~ inTick)
    => Cardinality(GestureCalls(gesture.g)) = 1

\* C9, amended: a touch gesture makes at most one durable reorder call and
\* none before its release; its release makes exactly one when the item is
\* released at another index than it started at, the item moved is there
\* and the list holds an id that is no placeholder, and none otherwise.
C9_AtMostOneCallPerGesture ==
    /\ \A k \in 1..gesture.g : Cardinality(GestureCalls(k)) <= 1
    /\ (gesture.g > 0 /\ ~ gesture.released) =>
          /\ GestureCalls(gesture.g) = {}
          /\ \A m \in 1..Len(microtasks) : microtasks[m].g # gesture.g
    /\ (gesture.g > 0 /\ gesture.released /\ ~ inTick) =>
          Cardinality(GestureCalls(gesture.g)) =
             IF gesture.moved /\ gesture.stable /\ ~ gesture.threw THEN 1 ELSE 0

C9_Witness ==
    /\ gesture.released /\ gesture.changed /\ ~ inTick
    /\ Cardinality(GestureCalls(gesture.g)) = 1

\* C10: the local reorders of one tick are followed by a single durable
\* reorder call, which carries the final order.
C10_SameTickCoalesced ==
    (~ inTick /\ lastTick.updates >= 2 /\ lastTick.final # <<>>)
    => /\ lastTick.calls = 1
       /\ calls # <<>>
       /\ calls[Len(calls)].ids = lastTick.final

\* calls i and j were both made before either of them ended
Overlapping(i, j) ==
    /\ i < j
    /\ calls[i].doneAt >= j

\* C11: toggle(id) and then delete(id), issued before either call ended:
\* once both have ended (the delete carried out), the row is absent, and a
\* toggle that found the row absent ended in a failure that was handled,
\* with the session still accepting intents.
C11_ToggleThenDelete ==
    \A i, j \in CallIds :
        ( /\ calls[i].op = "toggleTodo" /\ calls[i].src = "client"
          /\ calls[j].op = "deleteTodo" /\ calls[j].src = "client"
          /\ calls[i].id = calls[j].id
          /\ calls[i].pc = "done" /\ calls[j].pc = "done"
          /\ Overlapping(i, j)
          /\ calls[j].result = "ok" )
        => /\ ~ Exists(calls[i].id)
           /\ session = "ok"
           /\ calls[i].error = "not_found" => calls[i].caught

\* C12: an insert whose text is empty after trimming changes nothing: the
\* step of onAdd leaves LocalView and the store as they are and makes no
\* call, and a call of addTodo with such a text ends at once, having asked
\* nothing of the store.
C12_EmptyTextRejected ==
    [][ /\ \A formText \in TextInputs :
              (Trim(formText) = <<>> /\ onAdd(formText))
              => UNCHANGED <<optimisticTodos, nextTodos, inTick, todos, calls>>
        /\ \A i \in 1..Len(calls') :
              (calls'[i].op = "addTodo" /\ calls'[i].text = <<>>)
              => /\ calls'[i].reqs = <<>>
                 /\ calls'[i].pc = "done"
                 /\ calls'[i].result = "empty"
      ]_vars

\* the list and the store are empty, so the only handler that can have run
\* without a call is onAdd, and the only call is a direct addTodo
C12_Witness ==
    /\ intents = 2
    /\ todos = {} /\ optimisticTodos = <<>> /\ ~ inTick
    /\ Len(calls) = 1
    /\ calls[1].op = "addTodo" /\ calls[1].src = "direct"
    /\ calls[1].result = "empty" /\ calls[1].reqs = <<>>

\* C13: for every intent, a failure of its durable call is caught where the
\* call was made, and the session goes on accepting intents.
C13_FailuresCaught ==
    /\ \A i \in CallIds :
          (calls[i].src = "client" /\ calls[i].result = "threw")
          => calls[i].caught
    /\ (\E i \in CallIds : calls[i].result = "threw") => session = "ok"

\* C15: no store request that writes (insert, update, delete, full-order
\* call) carries an id that has not the durable format, whatever the item
\* the intent was applied to.
C15_NoPlaceholderIdInWrites ==
    \A i \in CallIds :
        \A k \in 1..Len(calls[i].reqs) :
            IsWrite(calls[i].reqs[k])
            => \A id \in Range(calls[i].reqs[k].ids) : IsUuid(id)

\* the rendered items other than the dragged one, by index (0-based)
Others == (0..(Len(optimisticTodos) - 1))
              \ {FindIndex(optimisticTodos, touchStartRef.id)}

\* the dragged item is rendered at its initial index and the centers of the
\* other items increase strictly in display order
GeometryInOrder ==
    /\ touchStartRef.active
    /\ FindIndex(optimisticTodos, touchStartRef.id) = touchStartRef.initialIndex
    /\ \A j, k \in Others : j < k => CenterY(j) < CenterY(k)

\* the items after the dragged one whose centers its adjusted center has
\* moved down past, and those before it whose centers it has moved up past
PassedDown(deltaY) ==
    {j \in Others : j > touchStartRef.initialIndex
                    /\ CenterY(j) <= DraggedCenterY(deltaY)}

PassedUp(deltaY) ==
    {j \in Others : j < touchStartRef.initialIndex
                    /\ DraggedCenterY(deltaY) < CenterY(j)}

\* C16: with the centers in order, the index returned for a dragged item
\* of initial index i is i+k when it has moved down past exactly k items
\* after it, i-k when it has moved up past exactly k items before it, and
\* i when it has passed none; it is always within 0..N-1.
C16_GestureToIndex ==
    GeometryInOrder =>
        \A deltaY \in Deltas :
            /\ NewIndex(deltaY) \in 0..(Len(optimisticTodos) - 1)
            /\ NewIndex(deltaY) =
                  touchStartRef.initialIndex
                  + Cardinality(PassedDown(deltaY))
                  - Cardinality(PassedUp(deltaY))

\* C17: the index handleTouchMove derives is stable: after a move has
\* changed the index and updateTodoPositions has shifted the other
\* elements, the same displacement with the same initial index derives the
\* index the first call returned.
C17_GestureToIndexStable ==
    [][ \A deltaY \in Deltas :
            handleTouchMove(deltaY)
            => /\ NewIndex(deltaY)' = NewIndex(deltaY)
               /\ NewIndex(deltaY)' = touchStartRef'.currentIndex
      ]_vars

\* C18: local steps apply in issuance order: the list a handler hands to
\* setOptimisticTodos is its local step applied to the list the handler
\* before it left, so that no earlier local mutation is lost or overwritten.
C18_LocalStepsInOrder ==
    [][ /\ \A id \in Range(Ids(optimisticTodos)) :
              onToggle(id)
              => nextTodos' = [i \in 1..Len(nextTodos) |->
                                 IF nextTodos[i].id = id
                                 THEN [nextTodos[i] EXCEPT !.completed = ~ @]
                                 ELSE nextTodos[i]]
        /\ \A id \in Range(Ids(optimisticTodos)) :
              onDelete(id)
              => nextTodos' = SelectSeq(nextTodos, LAMBDA t : t.id # id)
        /\ onClearCompleted
           => nextTodos' = SelectSeq(nextTodos, LAMBDA t : ~ t.completed)
      ]_vars

\* C19: when the insert of addTodo has been carried out, the position of
\* the new row is strictly less than the position of every other row of the
\* store, whatever other calls were in flight with it.
C19_NewRowOnTopDurably ==
    [][ \A i \in CallIds :
            InsertStep(i)
            => \A r \in todos' :
                  r.id # calls[i].newId => calls[i].newPos < r.position
      ]_vars

\* the configuration getSupabase requires is present
ConfigPresent == ~ Missing(URL) /\ ~ Missing(PUBLIC_ANON_KEY)

\* C20: the store client is built lazily and once: createClient is called
\* at most once; a call made with the required configuration present
\* returns the cached client, the same one every earlier call returned; a
\* call made with the configuration absent throws the descriptive error,
\* constructs nothing and caches nothing.
C20_BuiltLazilyAndOnce ==
    [][ getSupabase
        => LET r == results'[Len(results')]
           IN  /\ created' <= 1
               /\ ConfigPresent
                  => /\ r.outcome = "returned"
                     /\ r.client # Null
                     /\ r.client = cached'
                     /\ \A k \in 1..Len(results) :
                           results[k].outcome = "returned"
                           => results[k].client = r.client
               /\ ~ ConfigPresent
                  => /\ r.outcome = "threw"
                     /\ r.error = EnvVarsMissing
                     /\ created' = created
                     /\ cached = Null /\ cached' = Null
      ]_vars

C20_Witness ==
    /\ Len(results) = 3
    /\ results[1].outcome = "threw"
    /\ results[2].outcome = "returned"
    /\ results[3] = results[2]
    /\ created = 1
    /\ cached = results[3].client

\* C21: the documented configuration is sufficient: a call of getSupabase
\* made with NEXT_PUBLIC_SUPABASE_URL and SUPABASE_ANON_KEY set, as the
\* README and the error message instruct, returns a client and does not
\* throw the missing-configuration error.
C21_DocumentedConfigSuffices ==
    [][ (getSupabase /\ ~ Missing(URL) /\ ~ Missing(ANON_KEY))
        => /\ results'[Len(results')].outcome = "returned"
           /\ results'[Len(results')].client # Null
      ]_vars

\* the rows other than the row of this id
RowsBut(rows, id) == {r \in rows : r.id # id}

\* C22: when a write of a fallback batch fails, the store is left as it
\* was, so that the row keeps its position and no sibling already written
\* is rolled back; when it succeeds, its row gets the new position and
\* every other row is left alone; the answered write is not sent again.
C22_FallbackPartialFailure ==
    [][ \A i \in ReorderCalls :
          \A k \in 1..Len(calls[i].writes) :
            ReorderWrite(i, k)
            => /\ calls'[i].writes[k].state \in {"ok", "failed"}
               /\ calls'[i].reqs = calls[i].reqs
               /\ \A j \in 1..Len(calls[i].writes) :
                     j # k => calls'[i].writes[j] = calls[i].writes[j]
               /\ calls'[i].writes[k].state = "failed" => todos' = todos
               /\ calls'[i].writes[k].state = "ok"
                  => /\ RowsBut(todos', calls[i].writes[k].id)
                        = RowsBut(todos, calls[i].writes[k].id)
                     /\ \A r \in todos' :
                           r.id = calls[i].writes[k].id
                           => r.position = calls[i].writes[k].position
      ]_vars

C22_Witness ==
    \E i \in ReorderCalls :
        /\ calls[i].pc = "done"
        /\ Len(calls[i].writes) = 2
        /\ calls[i].writes[1] = [id |-> Uuid(2), position |-> 0, state |-> "ok"]
        /\ calls[i].writes[2] = [id |-> Uuid(1), position |-> 1, state |-> "failed"]
        /\ Len(calls[i].reqs) = 3
        /\ {<<r.id, r.position>> : r \in todos} = {<<Uuid(2), 0>>, <<Uuid(1), 5>>}

\* the row of this id as the behaviour found it in the store
OriginalRow(id) == CHOOSE r \in UNION InitialStores : r.id = id

\* C23: toggles are not lost in the store: when the session has issued
\* toggle(id) twice on a durable id and nothing else, both calls have
\* returned and the list shows the item with the flag it had at first, the
\* completed flag of the row is that flag.
C23_TogglesNotLost ==
    \A i, j \in CallIds :
        ( /\ i < j /\ Len(calls) = 2
          /\ calls[i].op = "toggleTodo" /\ calls[i].src = "client"
          /\ calls[j].op = "toggleTodo" /\ calls[j].src = "client"
          /\ calls[i].id = calls[j].id
          /\ calls[i].result = "ok" /\ calls[j].result = "ok"
          /\ \E k \in 1..Len(optimisticTodos) :
                /\ optimisticTodos[k].id = calls[i].id
                /\ optimisticTodos[k].completed
                      = OriginalRow(calls[i].id).completed )
        => \A r \in todos :
              r.id = calls[i].id
              => r.completed = OriginalRow(calls[i].id).completed

ClearCalls == {i \in CallIds : calls[i].op = "clearCompleted"}

\* C24: clearCompleted deletes durably what it removed locally: the rows
\* its delete removes from the store are rows of items it removed from the
\* list, and once every call has ended, its own with success, no item it
\* removed from the list has a row in the store.
C24_ClearDeletesWhatItRemoved ==
    [][ \A i \in ClearCalls :
          /\ ClearAnswer(i)
             => \A r \in todos \ todos' : r.id \in Range(calls[i].removed)
          /\ ( /\ calls'[i].result = "ok"
               /\ \A j \in 1..Len(calls') : calls'[j].pc = "done" )
             => \A r \in todos' : r.id \notin Range(calls[i].removed)
      ]_vars

\* C25: a touch release that moves an item moves the touched one: the item
\* handleTouchEnd puts at the recorded current index is the item on which
\* the touch started, whatever happened to the list since the touch began.
C25_ReleaseMovesTouchedItem ==
    [][ ( /\ handleTouchEnd
          /\ touchStartRef.initialIndex # touchStartRef.currentIndex )
        => /\ touchStartRef.currentIndex < Len(nextTodos')
           /\ nextTodos'[touchStartRef.currentIndex + 1].id = touchStartRef.id
           /\ optimisticTodos[touchStartRef.initialIndex + 1].id
                 = touchStartRef.id
      ]_vars

\* how many times an item occurs in a list
Count(list, x) == Cardinality({k \in 1..Len(list) : list[k] = x})

\* the two lists hold the same items, each as many times
SameItems(a, b) ==
    /\ Len(a) = Len(b)
    /\ \A x \in Range(a) \cup Range(b) : Count(a, x) = Count(b, x)

\* C26: a local reorder is a permutation: the list a drop or a touch
\* release hands to setOptimisticTodos holds the items of the rendered
\* list, none lost, duplicated or undefined; a drop whose dragged id is not
\* in the list, or is the target id, changes nothing and queues no call.
C26_ReorderIsPermutation ==
    [][ /\ \A draggedId \in DropData, targetId \in Range(Ids(optimisticTodos)) :
              handleDrop(draggedId, targetId)
              => IF \/ draggedId = targetId
                    \/ draggedId \notin Range(Ids(optimisticTodos))
                 THEN UNCHANGED <<nextTodos, microtasks, calls>>
                 ELSE /\ SameItems(nextTodos', optimisticTodos)
                      /\ Undefined \notin Range(nextTodos')
        /\ ( /\ handleTouchEnd
             /\ touchStartRef.initialIndex # touchStartRef.currentIndex
             /\ FindIndex(optimisticTodos, touchStartRef.id) # -1 )
           => /\ SameItems(nextTodos', optimisticTodos)
              /\ Undefined \notin Range(nextTodos')
      ]_vars

\* C27: the identifiers of the rendered list are unique: no two of its
\* items share an id, also when two inserts were accepted at the same
\* reading of the clock.
C27_LocalIdsUnique ==
    Distinct(Ids(optimisticTodos))

====
